---- MODULE Spec2Model ----
(***************************************************************************)
(* Chef's Twist (script.js): a browser page that fetches recipes from      *)
(* TheMealDB, renders them, keeps a list of saved recipe names in          *)
(* localStorage and asks a chat-completion service for a themed remix.     *)
(*                                                                         *)
(* Strings the code inspects character by character (ingredient text,      *)
(* measures, instructions, the remix reply) are sequences of tokens, a     *)
(* token being a word, the blank " ", "\n" or "\r".  A nullable string     *)
(* field is a record [isNull, chars].  The text kept in localStorage is a  *)
(* sequence of JSON tokens.                                                *)
(***************************************************************************)
EXTENDS Integers, Sequences, FiniteSets, TLC

VARIABLES
    phase,          \* "load": script not yet run; "running"; "crashed": top level threw
    slot,           \* localStorage[SAVED_RECIPES_KEY]: [present, text]
    savedView,      \* #saved-recipes-container / #saved-recipes-list
    currentRecipe,  \* let currentRecipe (a key of MealDB, or NoRecipe)
    recipeDisplay,  \* #recipe-display innerHTML
    remixOutput,    \* #remix-output innerHTML
    fetches,        \* pending fetchAndDisplay... invocations, in start order
    remixes,        \* pending remix click handlers, in start order
    logged,         \* what the step that ran last wrote with console.error
    lastDone        \* history: what the step that ran last rendered, if it completed a fetch

vars == <<phase, slot, savedView, currentRecipe, recipeDisplay,
          remixOutput, fetches, remixes, logged, lastDone>>

----------------------------------------------------------------------------
(* Bounds of the model *)

\* requests (fetches and remixes together) that may be pending at the same time
MaxPending == 2
\* "Please load a recipe before saving." paragraphs counted in the recipe region
MaxPrompts == 1
\* longest saved list found in localStorage when the page loads
MaxInitLen == 1

\* for (let i = 1; i <= 20; i++)
NumSlots == 20

----------------------------------------------------------------------------
(* Strings *)

Str(s) == [isNull |-> FALSE, chars |-> s]
Null == [isNull |-> TRUE, chars |-> <<>>]

\* JavaScript truthiness of a nullable string
Truthy(v) == ~v.isNull /\ Len(v.chars) > 0

IsSpace(c) == c \in {" ", "\n", "\r"}

RECURSIVE TrimLeft(_)
TrimLeft(s) ==
    IF s = <<>> THEN <<>>
    ELSE IF IsSpace(Head(s)) THEN TrimLeft(Tail(s)) ELSE s

RECURSIVE TrimRight(_)
TrimRight(s) ==
    IF s = <<>> THEN <<>>
    ELSE IF IsSpace(s[Len(s)]) THEN TrimRight(SubSeq(s, 1, Len(s) - 1)) ELSE s

\* String.prototype.trim
Trim(s) == TrimRight(TrimLeft(s))

----------------------------------------------------------------------------
(* Recipe records, as the catalog service returns them.  strMeal is a plain  *)
(* name ("" when the record carries none); strInstructions and the twenty    *)
(* strIngredient<i> / strMeasure<i> fields are nullable strings.             *)

Slots == 1..NumSlots

Recipe(meal, instr, ing, meas) ==
    [strMeal |-> meal, strInstructions |-> instr, ing |-> ing, meas |-> meas]

\* `<li>${meas ? `${meas} ` : ""}${ing}</li>` and `${meas ? meas + ' ' : ''}${ing}`
IngredientText(meas, ing) ==
    (IF Truthy(meas) THEN meas.chars \o <<" ">> ELSE <<>>) \o ing.chars

\* if (ing && ing.trim())
KeepsSlot(ing) == Truthy(ing) /\ Trim(ing.chars) # <<>>

RECURSIVE IngredientsFrom(_, _)
IngredientsFrom(recipe, i) ==
    IF i > NumSlots THEN <<>>
    ELSE (IF KeepsSlot(recipe.ing[i])
          THEN <<IngredientText(recipe.meas[i], recipe.ing[i])>>
          ELSE <<>>) \o IngredientsFrom(recipe, i + 1)

\* the <li> items of getIngredientsHtml(recipe), in order
getIngredientsHtml(recipe) == IngredientsFrom(recipe, 1)

\* .replace(/\r?\n/g, "<br>")
RECURSIVE ReplaceNewlines(_)
ReplaceNewlines(s) ==
    IF s = <<>> THEN <<>>
    ELSE IF Head(s) = "\n" THEN <<"<br>">> \o ReplaceNewlines(Tail(s))
    ELSE IF Head(s) = "\r" /\ Len(s) > 1 /\ s[2] = "\n"
         THEN <<"<br>">> \o ReplaceNewlines(Tail(Tail(s)))
    ELSE <<Head(s)>> \o ReplaceNewlines(Tail(s))

\* recipe.strInstructions.replace(...) on a record without instructions
RenderThrows(recipe) == recipe.strInstructions.isNull

(* What #recipe-display can hold.  view "recipe" is the template of          *)
(* renderRecipe, the only one with the Save Recipe button; prompts counts    *)
(* the paragraphs the save handler appended to it.                           *)
Region(view, title, ingredients, instructions, name, prompts) ==
    [view |-> view, title |-> title, ingredients |-> ingredients,
     instructions |-> instructions, name |-> name, prompts |-> prompts]

Message(view, name) == Region(view, "", <<>>, <<>>, name, 0)

InitialMarkup == Message("initial", "")
LoadingRandom == Message("loading", "")
LoadingByName == Message("loadingByName", "")
NotFound(name) == Message("notFound", name)
ErrorRandom   == Message("errorRandom", "")
ErrorByName   == Message("errorByName", "")

RecipeHtml(recipe) ==
    Region("recipe", recipe.strMeal, getIngredientsHtml(recipe),
           ReplaceNewlines(recipe.strInstructions.chars), "", 0)

HasSaveButton(region) == region.view = "recipe"

NoRecipe == "null"

----------------------------------------------------------------------------
(* The saved-recipes slot of localStorage.  Its text is a sequence of JSON   *)
(* tokens: the punctuation "[", "]", ",", the literal null, insignificant    *)
(* white space, and string literals.                                         *)

Punct(p) == [t |-> "punct", v |-> p]
StrTok(n) == [t |-> "string", v |-> n]

Absent == [present |-> FALSE, text |-> <<>>]
Stored(text) == [present |-> TRUE, text |-> text]

RECURSIVE JsonItems(_)
JsonItems(list) ==
    IF list = <<>> THEN <<>>
    ELSE IF Len(list) = 1 THEN <<StrTok(list[1])>>
    ELSE <<StrTok(list[1]), Punct(",")>> \o JsonItems(Tail(list))

\* a faulty serialisation that leaves out the separators (C13 tells it from
\* the real one)
JsonStringifyNoCommas(list) ==
    <<Punct("[")>> \o [i \in 1..Len(list) |-> StrTok(list[i])] \o <<Punct("]")>>

\* JSON.stringify of an array of strings
JsonStringify(list) == <<Punct("[")>> \o JsonItems(list) \o <<Punct("]")>>

\* a parsed JSON value: an array of strings, or something that is no array
ListValue(items) == [isList |-> TRUE, items |-> items]
NullValue == [isList |-> FALSE, items |-> <<>>]

IsBlankTok(tok) == tok = Punct(" ")
NotBlankTok(tok) == ~IsBlankTok(tok)

\* the elements between the brackets: string ("," string)*
RECURSIVE ParseItems(_)
ParseItems(toks) ==
    IF toks = <<>> THEN [ok |-> FALSE, items |-> <<>>]
    ELSE IF Head(toks).t # "string" THEN [ok |-> FALSE, items |-> <<>>]
    ELSE IF Len(toks) = 1 THEN [ok |-> TRUE, items |-> <<Head(toks).v>>]
    ELSE IF toks[2] # Punct(",") THEN [ok |-> FALSE, items |-> <<>>]
    ELSE LET rest == ParseItems(Tail(Tail(toks)))
         IN  [ok |-> rest.ok,
              items |-> IF rest.ok THEN <<Head(toks).v>> \o rest.items ELSE <<>>]

\* JSON.parse: [ok |-> FALSE] stands for the SyntaxError it throws
JsonParse(text) ==
    LET toks == SelectSeq(text, NotBlankTok)
    IN  IF toks = <<Punct("null")>> THEN [ok |-> TRUE, value |-> NullValue]
        ELSE IF Len(toks) >= 2 /\ toks[1] = Punct("[") /\ toks[Len(toks)] = Punct("]")
        THEN IF Len(toks) = 2 THEN [ok |-> TRUE, value |-> ListValue(<<>>)]
             ELSE LET inner == ParseItems(SubSeq(toks, 2, Len(toks) - 1))
                  IN  [ok |-> inner.ok, value |-> ListValue(inner.items)]
        ELSE [ok |-> FALSE, value |-> ListValue(<<>>)]

\* getSavedRecipes(): raw ? JSON.parse(raw) : [], and [] when that throws
getSavedRecipes(s) ==
    IF ~s.present \/ s.text = <<>> THEN ListValue(<<>>)
    ELSE LET parsed == JsonParse(s.text)
         IN  IF parsed.ok THEN parsed.value ELSE ListValue(<<>>)

\* the console.error of getSavedRecipes()
ReadLog(s) ==
    IF s.present /\ s.text # <<>> /\ ~JsonParse(s.text).ok
    THEN <<"Error reading saved recipes from localStorage">>
    ELSE <<>>

\* the console.error of setSavedRecipes(list)
WriteLog(writeOk) ==
    IF writeOk THEN <<>> ELSE <<"Error saving recipes to localStorage">>

\* a faulty setSavedRecipes(list) that removes the item before it writes, so
\* that a failed write loses the list (C12 tells it from the real one)
setSavedRecipesClearsFirst(s, list, writeOk) ==
    IF writeOk THEN Stored(JsonStringify(list)) ELSE Absent

\* setSavedRecipes(list): the slot afterwards; setItem throws when ~writeOk
setSavedRecipes(s, list, writeOk) ==
    IF writeOk THEN Stored(JsonStringify(list)) ELSE s

\* JSON.stringify of what getSavedRecipes() returned
JsonStringifyValue(v) ==
    IF v.isList THEN JsonStringify(v.items) ELSE <<Punct("null")>>

\* setSavedRecipes(getSavedRecipes()): the slot afterwards
RoundTrip(s, writeOk) ==
    IF writeOk THEN Stored(JsonStringifyValue(getSavedRecipes(s))) ELSE s

Includes(list, name) == \E i \in 1..Len(list) : list[i] = name

\* list.filter(n => n !== name)
RECURSIVE FilterOut(_, _)
FilterOut(list, name) ==
    IF list = <<>> THEN <<>>
    ELSE (IF Head(list) # name THEN <<Head(list)>> ELSE <<>>)
         \o FilterOut(Tail(list), name)

(* #saved-recipes-container (hidden: style.display = 'none') and the <li>    *)
(* items of #saved-recipes-list, each with the name its two listeners hold.  *)
SavedMarkup == [hidden |-> FALSE, items |-> <<>>]

RECURSIVE AppendItems(_, _)
AppendItems(items, list) ==
    IF list = <<>> THEN items
    ELSE AppendItems(Append(items, Head(list)), Tail(list))

\* a faulty renderSavedRecipesList() that leaves the container visible when
\* the list is empty (C2 tells it from the real one)
renderSavedRecipesListNeverHides(s) ==
    [hidden |-> FALSE, items |-> AppendItems(<<>>, getSavedRecipes(s).items)]

\* renderSavedRecipesList(), for a slot whose content parses to an array
renderSavedRecipesList(s) ==
    LET list == getSavedRecipes(s).items
    IN  IF Len(list) = 0 THEN [hidden |-> TRUE, items |-> <<>>]
        ELSE [hidden |-> FALSE, items |-> AppendItems(<<>>, list)]

\* a faulty saveRecipeName(name) without the includes test (C1 tells it from
\* the real one)
SlotAfterSaveNoCheck(s, name, writeOk) ==
    setSavedRecipes(s, Append(getSavedRecipes(s).items, name), writeOk)

\* saveRecipeName(name): the slot afterwards
SlotAfterSave(s, name, writeOk) ==
    LET list == getSavedRecipes(s).items
    IN  IF ~Includes(list, name)
        THEN setSavedRecipes(s, Append(list, name), writeOk)
        ELSE s

\* a faulty deleteSavedRecipe(name) that removes the first entry equal to
\* name only (C3 tells it from the real one)
SlotAfterDeleteFirstOnly(s, name, writeOk) ==
    LET list == getSavedRecipes(s).items
        hits == {i \in 1..Len(list) : list[i] = name}
    IN  IF hits = {} THEN setSavedRecipes(s, list, writeOk)
        ELSE LET first == CHOOSE i \in hits : \A j \in hits : i <= j
             IN  setSavedRecipes(s,
                     SubSeq(list, 1, first - 1) \o SubSeq(list, first + 1, Len(list)),
                     writeOk)

\* deleteSavedRecipe(name): the slot afterwards
SlotAfterDelete(s, name, writeOk) ==
    setSavedRecipes(s, FilterOut(getSavedRecipes(s).items, name), writeOk)

----------------------------------------------------------------------------
(* The catalog service.  A response to a fetch is a rejection (transport     *)
(* failure) or a status (res.ok or not) followed by a body: text that is no  *)
(* JSON, a container without meals, or a container whose first meal is one   *)
(* of the catalog's records.                                                 *)

Statuses == {"reject", "ok", "notOk"}
RecipeIds == {"lasagne", "pho", "nameless", "stew"}
MealBodies == {"invalid", "noMeals"} \cup RecipeIds

NoIngredients == [i \in Slots |-> Null]

LasagneIng ==
    [i \in Slots |->
        CASE i = 1 -> Str(<<"Pasta">>)
          [] i = 2 -> Str(<<>>)
          [] i = 3 -> Str(<<" ">>)
          [] i = 4 -> Str(<<"Cheese">>)
          [] i = NumSlots -> Str(<<"Basil">>)
          [] OTHER -> Null]

LasagneMeas ==
    [i \in Slots |->
        CASE i = 1 -> Str(<<"200g">>)
          [] i = 2 -> Str(<<"1", " ", "cup">>)
          [] i = 4 -> Str(<<>>)
          [] OTHER -> Null]

PhoIng ==
    [i \in Slots |->
        CASE i = 1 -> Str(<<" ", " ">>)
          [] i = 2 -> Str(<<" ", "Noodles", " ">>)
          [] i = 3 -> Str(<<"Beef">>)
          [] OTHER -> Str(<<>>)]

PhoMeas ==
    [i \in Slots |->
        CASE i = 1 -> Str(<<"2">>)
          [] i = 3 -> Str(<<" ">>)
          [] OTHER -> Str(<<>>)]

\* the records of the catalog
MealDB ==
    [r \in RecipeIds |->
        CASE r = "lasagne" ->
                Recipe("Lasagne", Str(<<"Layer", "\r", "\n", "Bake", "\n", "Serve">>),
                       LasagneIng, LasagneMeas)
          [] r = "pho" ->
                Recipe("Pho", Str(<<"Simmer">>), PhoIng, PhoMeas)
          [] r = "nameless" ->
                Recipe("", Str(<<"Mix">>),
                       [NoIngredients EXCEPT ![1] = Str(<<"Egg">>)], NoIngredients)
          [] OTHER ->
                Recipe("Stew", Null,
                       [NoIngredients EXCEPT ![1] = Str(<<"Beans">>)], NoIngredients)]

----------------------------------------------------------------------------
(* Pending requests *)

NewFetch(kind, name) ==
    [kind |-> kind, name |-> name, pc |-> "fetch", ok |-> TRUE, late |-> FALSE]

\* the sequence without its i-th element
Remove(seq, i) == SubSeq(seq, 1, i - 1) \o SubSeq(seq, i + 1, Len(seq))

\* request i completes: the older requests still pending have been overtaken
Complete(reqs, i) ==
    Remove([j \in 1..Len(reqs) |->
                IF j < i THEN [reqs[j] EXCEPT !.late = TRUE] ELSE reqs[j]], i)

NoneDone == [region |-> InitialMarkup, late |-> FALSE]

\* the step completed `req`, which rendered `region`; late: a request started
\* after `req` had completed before it
Done(req, region) == [region |-> region, late |-> req.late]

Pending == Len(fetches) + Len(remixes)

\* the catch block of the two fetch functions
ErrorRegion(kind) == IF kind = "random" THEN ErrorRandom ELSE ErrorByName
ErrorLog(kind) ==
    IF kind = "random" THEN <<>> ELSE <<"Error fetching recipe by name">>

----------------------------------------------------------------------------
(* Start of the page: the top level of script.js *)

\* fetchAndDisplayRandomRecipe() up to its first await
StartRandom ==
    /\ recipeDisplay' = LoadingRandom
    /\ fetches' = Append(fetches, NewFetch("random", ""))

\* A slot that parses to something that is no array makes list.length throw
\* in loadSavedRecipesOnStart(): the rest of the script never runs.
Startup ==
    /\ phase = "load"
    /\ IF ~getSavedRecipes(slot).isList
       THEN /\ phase' = "crashed"
            /\ UNCHANGED <<savedView, recipeDisplay, fetches>>
       ELSE /\ phase' = "running"
            /\ savedView' = renderSavedRecipesList(slot)
            /\ StartRandom
    /\ logged' = ReadLog(slot)
    /\ lastDone' = NoneDone
    /\ UNCHANGED <<slot, currentRecipe, remixOutput, remixes>>

----------------------------------------------------------------------------
(* The saved list *)

\* a faulty save handler that tests currentRecipe only, not its name (C14
\* tells it from the real one)
SaveClickNoNameTest(writeOk) ==
    /\ phase = "running"
    /\ HasSaveButton(recipeDisplay)
    /\ UNCHANGED <<phase, currentRecipe, remixOutput, fetches, remixes>>
    /\ IF currentRecipe = NoRecipe
       THEN /\ recipeDisplay.prompts < MaxPrompts
            /\ recipeDisplay' = [recipeDisplay EXCEPT !.prompts = @ + 1]
            /\ logged' = <<>>
            /\ UNCHANGED <<slot, savedView>>
       ELSE LET name == MealDB[currentRecipe].strMeal
                list == getSavedRecipes(slot)
            IN  /\ UNCHANGED recipeDisplay
                /\ slot' = SlotAfterSave(slot, name, writeOk)
                /\ IF Includes(list.items, name)
                   THEN /\ savedView' = savedView
                        /\ logged' = ReadLog(slot)
                   ELSE /\ savedView' = renderSavedRecipesList(slot')
                        /\ logged' = ReadLog(slot) \o WriteLog(writeOk)
                                        \o ReadLog(slot')
    /\ lastDone' = NoneDone

\* click on #save-recipe-btn; localStorage.setItem throws unless writeOk
SaveClick(writeOk) ==
    /\ phase = "running"
    /\ HasSaveButton(recipeDisplay)
    /\ UNCHANGED <<phase, currentRecipe, remixOutput, fetches, remixes>>
    /\ IF currentRecipe = NoRecipe \/ MealDB[currentRecipe].strMeal = ""
       THEN /\ recipeDisplay.prompts < MaxPrompts
            /\ recipeDisplay' = [recipeDisplay EXCEPT !.prompts = @ + 1]
            /\ logged' = <<>>
            /\ UNCHANGED <<slot, savedView>>
       ELSE LET name == MealDB[currentRecipe].strMeal
                list == getSavedRecipes(slot)
            IN  /\ UNCHANGED recipeDisplay
                /\ IF ~list.isList
                   THEN /\ logged' = ReadLog(slot)
                        /\ UNCHANGED <<slot, savedView>>
                   ELSE /\ slot' = SlotAfterSave(slot, name, writeOk)
                        /\ IF Includes(list.items, name)
                           THEN /\ savedView' = savedView
                                /\ logged' = ReadLog(slot)
                           ELSE /\ savedView' = renderSavedRecipesList(slot')
                                /\ logged' = ReadLog(slot) \o WriteLog(writeOk)
                                                \o ReadLog(slot')
    /\ lastDone' = NoneDone

\* click on the Delete button of the i-th rendered item; localStorage.setItem
\* throws unless writeOk
DeleteClick(i, writeOk) ==
    /\ i \in 1..Len(savedView.items)
    /\ UNCHANGED <<phase, currentRecipe, recipeDisplay, remixOutput,
                   fetches, remixes>>
    /\ IF ~getSavedRecipes(slot).isList
       THEN /\ logged' = ReadLog(slot)
            /\ UNCHANGED <<slot, savedView>>
       ELSE /\ slot' = SlotAfterDelete(slot, savedView.items[i], writeOk)
            /\ savedView' = renderSavedRecipesList(slot')
            /\ logged' = ReadLog(slot) \o WriteLog(writeOk) \o ReadLog(slot')
    /\ lastDone' = NoneDone

----------------------------------------------------------------------------
(* Fetching recipes *)

\* click on #random-btn
RandomClick ==
    /\ phase = "running"
    /\ Pending < MaxPending
    /\ StartRandom
    /\ logged' = <<>>
    /\ lastDone' = NoneDone
    /\ UNCHANGED <<phase, slot, savedView, currentRecipe, remixOutput,
                   remixes>>

\* a faulty fetchAndDisplayRecipeByName(name) without the test for an empty
\* name (C17 tells it from the real one)
NameClickNoGuard(i) ==
    /\ i \in 1..Len(savedView.items)
    /\ Pending < MaxPending
    /\ recipeDisplay' = LoadingByName
    /\ fetches' = Append(fetches, NewFetch("byName", savedView.items[i]))
    /\ logged' = <<>>
    /\ lastDone' = NoneDone
    /\ UNCHANGED <<phase, slot, savedView, currentRecipe, remixOutput,
                   remixes>>

\* click on the name of the i-th rendered item: fetchAndDisplayRecipeByName(name)
\* up to its first await
NameClick(i) ==
    /\ i \in 1..Len(savedView.items)
    /\ LET name == savedView.items[i]
       IN  IF name = ""
           THEN UNCHANGED <<recipeDisplay, fetches>>
           ELSE /\ Pending < MaxPending
                /\ recipeDisplay' = LoadingByName
                /\ fetches' = Append(fetches, NewFetch("byName", name))
    /\ logged' = <<>>
    /\ lastDone' = NoneDone
    /\ UNCHANGED <<phase, slot, savedView, currentRecipe, remixOutput,
                   remixes>>

\* await fetch(url) rejects, or (by name only) the response is not ok
ThrowsOnResponse(req, status) ==
    status = "reject" \/ (req.kind = "byName" /\ status = "notOk")

\* the promise of fetch(url) settles with `status` and the function runs to
\* its next await, or to its end through the catch block
FetchSettles(i, status) ==
    /\ i \in 1..Len(fetches)
    /\ fetches[i].pc = "fetch"
    /\ LET req == fetches[i]
       IN  IF ThrowsOnResponse(req, status)
           THEN /\ recipeDisplay' = ErrorRegion(req.kind)
                /\ logged' = ErrorLog(req.kind)
                /\ fetches' = Complete(fetches, i)
                /\ lastDone' = Done(req, ErrorRegion(req.kind))
           ELSE /\ fetches' = [fetches EXCEPT ![i].pc = "json",
                                              ![i].ok = (status = "ok")]
                /\ logged' = <<>>
                /\ lastDone' = NoneDone
                /\ UNCHANGED <<recipeDisplay>>
    /\ UNCHANGED <<phase, slot, savedView, currentRecipe, remixOutput, remixes>>

\* a faulty renderRecipe that assigns currentRecipe only while it is unset
\* (C15 tells it from the real one)
CurrentAfterBodyKeepsFirst(body, current) ==
    IF body \in {"invalid", "noMeals"} \/ current # NoRecipe THEN current ELSE body

\* renderRecipe(recipe) assigns currentRecipe before it builds the markup;
\* without a recipe currentRecipe is left alone
CurrentAfterBody(body, current) ==
    IF body \in {"invalid", "noMeals"} THEN current ELSE body

\* does the try block throw once res.json() has settled with `body`
ThrowsOnBody(req, body) ==
    \/ body = "invalid"
    \/ body = "noMeals" /\ req.kind = "random"
    \/ body \in RecipeIds /\ RenderThrows(MealDB[body])

\* a faulty outcome that treats an empty result as a failure of the request
\* (C4 tells it from the real one)
RegionAfterBodyNoNotFound(req, body) ==
    IF body \in {"invalid", "noMeals"} THEN ErrorRegion(req.kind)
    ELSE IF RenderThrows(MealDB[body]) THEN ErrorRegion(req.kind)
    ELSE RecipeHtml(MealDB[body])

\* a faulty outcome whose catch block renders nothing, so that the region
\* keeps what it showed (C18 tells it from the real one)
RegionAfterBodySilentCatch(req, body) ==
    IF ThrowsOnBody(req, body) THEN recipeDisplay
    ELSE IF body = "noMeals" THEN NotFound(req.name)
    ELSE RecipeHtml(MealDB[body])

\* what the function leaves in #recipe-display once res.json() has settled
RegionAfterBody(req, body) ==
    IF body = "invalid" THEN ErrorRegion(req.kind)
    ELSE IF body = "noMeals"
         THEN IF req.kind = "random" THEN ErrorRandom ELSE NotFound(req.name)
    ELSE IF RenderThrows(MealDB[body]) THEN ErrorRegion(req.kind)
    ELSE RecipeHtml(MealDB[body])

\* a faulty completion that drops the outcome of a request overtaken by a
\* later one (C10 tells it from the real one)
JsonSettlesDropsOvertaken(i, body) ==
    /\ i \in 1..Len(fetches)
    /\ fetches[i].pc = "json"
    /\ LET req == fetches[i]
       IN  /\ IF req.late
              THEN UNCHANGED <<currentRecipe, recipeDisplay>>
              ELSE /\ currentRecipe' = CurrentAfterBody(body, currentRecipe)
                   /\ recipeDisplay' = RegionAfterBody(req, body)
           /\ logged' = IF ThrowsOnBody(req, body) THEN ErrorLog(req.kind) ELSE <<>>
           /\ fetches' = Complete(fetches, i)
           /\ lastDone' = Done(req, RegionAfterBody(req, body))
    /\ UNCHANGED <<phase, slot, savedView, remixOutput, remixes>>

\* the promise of res.json() settles with `body` and the function runs to its end
JsonSettles(i, body) ==
    /\ i \in 1..Len(fetches)
    /\ fetches[i].pc = "json"
    /\ LET req == fetches[i]
       IN  /\ currentRecipe' = CurrentAfterBody(body, currentRecipe)
           /\ recipeDisplay' = RegionAfterBody(req, body)
           /\ logged' = IF ThrowsOnBody(req, body) THEN ErrorLog(req.kind) ELSE <<>>
           /\ fetches' = Complete(fetches, i)
           /\ lastDone' = Done(req, RegionAfterBody(req, body))
    /\ UNCHANGED <<phase, slot, savedView, remixOutput, remixes>>

----------------------------------------------------------------------------
(* Remix *)

\* the values of #remix-theme ("" when nothing is chosen)
SelectValues == {"", "Spicy"}

\* remixThemeSelect?.value || "Make it interesting"
ThemeOf(sel) == IF sel = "" THEN "Make it interesting" ELSE sel

\* the local array `ingredients` of remixRecipe
RemixIngredients(recipeJson) == IngredientsFrom(recipeJson, 1)

\* JSON.stringify(recipeJson, null, 2): every field of the record, null or not
RECURSIVE SlotEntries(_, _)
SlotEntries(recipeJson, i) ==
    IF i > NumSlots THEN <<>>
    ELSE <<[key |-> "strIngredient", slot |-> i, value |-> recipeJson.ing[i]],
           [key |-> "strMeasure", slot |-> i, value |-> recipeJson.meas[i]]>>
         \o SlotEntries(recipeJson, i + 1)

JsonOfRecipe(recipeJson) ==
    <<[key |-> "strMeal", slot |-> 0, value |-> Str(<<recipeJson.strMeal>>)],
      [key |-> "strInstructions", slot |-> 0, value |-> recipeJson.strInstructions]>>
    \o SlotEntries(recipeJson, 1)

\* userPrompt: the recipe's JSON text and the theme; `ingredients` is not in it
UserPrompt(recipeJson, theme) ==
    [json |-> JsonOfRecipe(recipeJson), theme |-> theme]

\* the body of the POST to the chat-completion service
RequestBody(recipeJson, theme) ==
    [model |-> "gpt-4.1",
     system |-> "You are a playful, concise, and helpful recipe remixing assistant.",
     user |-> UserPrompt(recipeJson, theme)]

\* the replies the service can give
Replies == {<<"Swap", "\n", "\n", "Stir", "\n", "Serve">>}

(* The body of a response of the chat-completion service: text that is no    *)
(* JSON, or data whose choices list is empty, or whose first choice has the  *)
(* given (nullable) content.                                                 *)
RemixBody(valid, hasChoice, content) ==
    [valid |-> valid, hasChoice |-> hasChoice, content |-> content]

NoBody == RemixBody(FALSE, FALSE, Null)

RemixBodies ==
    {NoBody, RemixBody(TRUE, FALSE, Null), RemixBody(TRUE, TRUE, Null),
     RemixBody(TRUE, TRUE, Str(<<>>))}
    \cup {RemixBody(TRUE, TRUE, Str(r)) : r \in Replies}

\* a faulty remixRecipe that returns whatever content it finds, without the
\* test for an empty reply (C8 tells it from the real one)
remixRecipeNoReplyCheck(ok, body) ==
    IF ~ok \/ ~body.valid THEN [raised |-> TRUE, reply |-> <<>>]
    ELSE [raised |-> FALSE, reply |-> body.content.chars]

\* remixRecipe after its fetch has answered with status ok or notOk:
\* does it throw, and what does it return otherwise
remixRecipe(ok, body) ==
    IF ~ok THEN [raised |-> TRUE, reply |-> <<>>]
    ELSE IF ~body.valid THEN [raised |-> TRUE, reply |-> <<>>]
    ELSE IF ~body.hasChoice \/ ~Truthy(body.content)
         THEN [raised |-> TRUE, reply |-> <<>>]
    ELSE [raised |-> FALSE, reply |-> body.content.chars]

\* .replace(/\n\n/g, "<br><br>")
RECURSIVE ReplaceDoubleNewlines(_)
ReplaceDoubleNewlines(s) ==
    IF s = <<>> THEN <<>>
    ELSE IF Len(s) > 1 /\ s[1] = "\n" /\ s[2] = "\n"
         THEN <<"<br><br>">> \o ReplaceDoubleNewlines(Tail(Tail(s)))
    ELSE <<Head(s)>> \o ReplaceDoubleNewlines(Tail(s))

\* .replace(/\n/g, "<br>")
RECURSIVE ReplaceSingleNewlines(_)
ReplaceSingleNewlines(s) ==
    IF s = <<>> THEN <<>>
    ELSE <<IF Head(s) = "\n" THEN "<br>" ELSE Head(s)>>
         \o ReplaceSingleNewlines(Tail(s))

\* what #remix-output can hold
RemixRegion(view, html) == [view |-> view, html |-> html]
RemixInitial == RemixRegion("initial", <<>>)
RemixPrompt  == RemixRegion("prompt", <<>>)
RemixLoading == RemixRegion("loading", <<>>)
RemixFailure == RemixRegion("failure", <<>>)
RemixResult(remixText) ==
    RemixRegion("result", ReplaceSingleNewlines(ReplaceDoubleNewlines(remixText)))

\* a faulty click handler without the test for a missing recipe (C7 tells it
\* from the real one)
RemixClickUnguarded ==
    /\ phase = "running"
    /\ Pending < MaxPending
    /\ remixOutput' = RemixLoading
    /\ remixes' = Append(remixes,
           [recipe |-> currentRecipe, pc |-> "fetch", ok |-> TRUE])
    /\ logged' = <<>>
    /\ lastDone' = NoneDone
    /\ UNCHANGED <<phase, slot, savedView, currentRecipe, recipeDisplay,
                   fetches>>

\* click on #remix-btn, up to the await inside remixRecipe.  The request sent
\* is RequestBody(MealDB[currentRecipe], ThemeOf(sel)) for the selected value;
\* nothing that runs later reads the theme, so the pending handler keeps only
\* the recipe it was called with.
RemixClick ==
    /\ phase = "running"
    /\ IF currentRecipe = NoRecipe
       THEN /\ remixOutput' = RemixPrompt
            /\ logged' = <<>>
            /\ UNCHANGED remixes
       ELSE /\ Pending < MaxPending
            /\ remixOutput' = RemixLoading
            /\ remixes' = Append(remixes,
                   [recipe |-> currentRecipe, pc |-> "fetch", ok |-> TRUE])
            /\ logged' = <<>>
    /\ lastDone' = NoneDone
    /\ UNCHANGED <<phase, slot, savedView, currentRecipe, recipeDisplay,
                   fetches>>

\* the promise of fetch(...) inside remixRecipe settles with `status`
RemixFetchSettles(i, status) ==
    /\ i \in 1..Len(remixes)
    /\ remixes[i].pc = "fetch"
    /\ IF status = "reject"
       THEN /\ remixOutput' = RemixFailure
            /\ logged' = <<"Remix error:">>
            /\ remixes' = Remove(remixes, i)
       ELSE /\ remixes' = [remixes EXCEPT ![i].pc = "body",
                                          ![i].ok = (status = "ok")]
            /\ logged' = <<>>
            /\ UNCHANGED remixOutput
    /\ lastDone' = NoneDone
    /\ UNCHANGED <<phase, slot, savedView, currentRecipe, recipeDisplay,
                   fetches>>

\* what the click handler leaves in #remix-output for a result of remixRecipe
RemixRegionAfter(result) ==
    IF result.raised THEN RemixFailure ELSE RemixResult(result.reply)

\* a faulty end of the click handler that keeps a successful remix in the
\* saved list (C19 tells it from the real one)
RemixBodySettlesSavesResult(i, body) ==
    /\ i \in 1..Len(remixes)
    /\ remixes[i].pc = "body"
    /\ remixOutput' = RemixRegionAfter(remixRecipe(remixes[i].ok, body))
    /\ logged' = IF remixRecipe(remixes[i].ok, body).raised
                 THEN <<"Remix error:">> ELSE <<>>
    /\ slot' = IF remixRecipe(remixes[i].ok, body).raised THEN slot
               ELSE SlotAfterSave(slot, "Remix", TRUE)
    /\ savedView' = renderSavedRecipesList(slot')
    /\ remixes' = Remove(remixes, i)
    /\ lastDone' = NoneDone
    /\ UNCHANGED <<phase, currentRecipe, recipeDisplay, fetches>>

\* the promise of res.text() (status not ok) or res.json() settles with `body`:
\* remixRecipe and the click handler run to their end
RemixBodySettles(i, body) ==
    /\ i \in 1..Len(remixes)
    /\ remixes[i].pc = "body"
    /\ remixOutput' = RemixRegionAfter(remixRecipe(remixes[i].ok, body))
    /\ logged' = IF remixRecipe(remixes[i].ok, body).raised
                 THEN <<"Remix error:">> ELSE <<>>
    /\ remixes' = Remove(remixes, i)
    /\ lastDone' = NoneDone
    /\ UNCHANGED <<phase, slot, savedView, currentRecipe, recipeDisplay,
                   fetches>>

----------------------------------------------------------------------------
(* Specifications *)

\* the names a saved list found at page load can hold
SavedNames == {"Lasagne", "Pho"}

RECURSIVE ListsOfLength(_)
ListsOfLength(n) ==
    IF n = 0 THEN {<<>>}
    ELSE {Append(l, x) : l \in ListsOfLength(n - 1), x \in SavedNames}

InitLists == UNION {ListsOfLength(n) : n \in 0..MaxInitLen}

NoDuplicates(list) ==
    LET l == list
    IN  \A i, j \in 1..Len(l) : l[i] = l[j] => i = j

\* the page before script.js runs
InitWith(s) ==
    /\ phase = "load"
    /\ slot = s
    /\ savedView = SavedMarkup
    /\ currentRecipe = NoRecipe
    /\ recipeDisplay = InitialMarkup
    /\ remixOutput = RemixInitial
    /\ fetches = <<>>
    /\ remixes = <<>>
    /\ logged = <<>>
    /\ lastDone = NoneDone

\* the slot is absent or holds what the page itself wrote there earlier
Init ==
    \E s \in {Absent} \cup {Stored(JsonStringify(l)) :
                              l \in {x \in InitLists : NoDuplicates(x)}} :
        InitWith(s)

Next ==
    \/ Startup
    \/ \E writeOk \in BOOLEAN : SaveClick(writeOk)
    \/ \E i \in 1..Len(savedView.items), writeOk \in BOOLEAN : DeleteClick(i, writeOk)
    \/ RandomClick
    \/ \E i \in 1..Len(savedView.items) : NameClick(i)
    \/ \E i \in 1..MaxPending, status \in Statuses : FetchSettles(i, status)
    \/ \E i \in 1..MaxPending, body \in MealBodies : JsonSettles(i, body)
    \/ RemixClick
    \/ \E i \in 1..MaxPending, status \in Statuses : RemixFetchSettles(i, status)
    \/ \E i \in 1..MaxPending, body \in RemixBodies : RemixBodySettles(i, body)

Spec == Init /\ [][Next]_vars

\* saved lists with repeated names, as another writer of the slot may leave them
DupLists == {<<"Lasagne", "Pho", "Lasagne">>}

InitDup == \E l \in DupLists : InitWith(Stored(JsonStringify(l)))

SpecDup == InitDup /\ [][Next]_vars

(* Slot contents the page did not write itself: the empty string, text that  *)
(* is no JSON, the JSON literal null, a list printed with white space, and a *)
(* list that holds the empty name.                                           *)
EmptyText == <<>>
BrokenText == <<Punct("[")>>
NullText == <<Punct("null")>>
SpacedText ==
    <<Punct("["), Punct(" "), StrTok("Lasagne"), Punct(" "), Punct("]")>>

EmptyNameText == JsonStringify(<<"", "Pho">>)

AnySlots ==
    {Absent, Stored(EmptyText), Stored(BrokenText), Stored(NullText),
     Stored(SpacedText), Stored(EmptyNameText)}

InitAnySlot == \E s \in AnySlots : InitWith(s)

SpecAnySlot == InitAnySlot /\ [][Next]_vars

(* Every network request eventually resolves or fails.  It is enough to     *)
(* assume so of the oldest pending call of each kind: the promise it awaits  *)
(* is settled in the end.                                                    *)
Fairness ==
    /\ WF_vars(\E status \in Statuses : FetchSettles(1, status))
    /\ WF_vars(\E body \in MealBodies : JsonSettles(1, body))
    /\ WF_vars(\E status \in Statuses : RemixFetchSettles(1, status))
    /\ WF_vars(\E body \in RemixBodies : RemixBodySettles(1, body))

\* the page opened with one saved name
InitLive == InitWith(Stored(JsonStringify(<<"Lasagne">>)))

(* The steps that start, settle or end a request.  Save and delete clicks    *)
(* are left out: they change neither the pending requests nor the remix      *)
(* region, and in the recipe region only the prompts under a recipe          *)
(* (SaveDeleteLeaveRequests).                                                *)
NextLive ==
    \/ Startup
    \/ RandomClick
    \/ \E i \in 1..Len(savedView.items) : NameClick(i)
    \/ \E i \in 1..MaxPending, status \in Statuses : FetchSettles(i, status)
    \/ \E i \in 1..MaxPending, body \in MealBodies : JsonSettles(i, body)
    \/ RemixClick
    \/ \E i \in 1..MaxPending, status \in Statuses : RemixFetchSettles(i, status)
    \/ \E i \in 1..MaxPending, body \in RemixBodies : RemixBodySettles(i, body)

SpecLive == InitLive /\ [][NextLive]_vars /\ Fairness

----------------------------------------------------------------------------
(* Properties *)

\* the persisted list, before and after a step
Persisted == getSavedRecipes(slot).items
PersistedAfter == getSavedRecipes(slot').items

\* the name a save request stores, when Current Recipe has one
HasName == currentRecipe # NoRecipe /\ MealDB[currentRecipe].strMeal # ""
SaveName == MealDB[currentRecipe].strMeal

\* C1 as stated: every save request for a name n appends n at the end of the
\* persisted list when n is absent from it and leaves the list unchanged when
\* n is present, and the persisted list never holds a name twice.
C1_SaveAppendsWhenAbsent ==
    [][/\ NoDuplicates(Persisted) /\ NoDuplicates(PersistedAfter)
       /\ \A w \in BOOLEAN :
            (HasName /\ SaveClick(w)) =>
                PersistedAfter = IF Includes(Persisted, SaveName) THEN Persisted
                             ELSE Append(Persisted, SaveName)]_vars

\* C1 amended: a save request for a name n appends n at the end of the
\* persisted list when n is absent and the write to the slot succeeds, and
\* leaves the list unchanged when n is present or the write fails; once n is
\* in the list a further save of n changes nothing; the persisted list never
\* holds a name twice.
C1_SaveIdempotentUnique ==
    [][/\ NoDuplicates(Persisted) /\ NoDuplicates(PersistedAfter)
       /\ \A w \in BOOLEAN :
            (HasName /\ SaveClick(w)) =>
                /\ PersistedAfter = IF Includes(Persisted, SaveName) \/ ~w
                                THEN Persisted
                                ELSE Append(Persisted, SaveName)
                /\ Includes(PersistedAfter, SaveName) =>
                      \A w2 \in BOOLEAN :
                          SlotAfterSave(slot', SaveName, w2) = slot']_vars

\* a second name was appended behind the first by a save request
C1_Witness ==
    /\ phase = "running"
    /\ Persisted = <<"Pho", "Lasagne">>
    /\ currentRecipe = "lasagne"
    /\ HasSaveButton(recipeDisplay)

\* C2: once the script has started, the rendered saved list equals the
\* persisted list: the region is hidden exactly when the persisted list is
\* empty, and otherwise shows one entry per persisted name, in the same order.
C2_RenderedEqualsPersisted ==
    phase = "running" =>
        /\ savedView.hidden = (Persisted = <<>>)
        /\ savedView.items = Persisted

\* two saved names are shown, in the order they were saved
C2_Witness ==
    /\ phase = "running"
    /\ ~savedView.hidden
    /\ savedView.items = <<"Lasagne", "Pho">>
    /\ slot = Stored(JsonStringify(<<"Lasagne", "Pho">>))

C4_NotFoundKeepsCurrent ==
    [][\A i \in 1..Len(fetches) :
        (fetches[i].kind = "byName" /\ JsonSettles(i, "noMeals")) =>
            /\ recipeDisplay'.view = "notFound"
            /\ recipeDisplay'.name = fetches[i].name
            /\ recipeDisplay' \notin {ErrorByName, ErrorRandom}
            /\ currentRecipe' = currentRecipe]_vars

\* "Pho" was not found while Lasagne stays Current Recipe
C4_Witness ==
    /\ recipeDisplay = NotFound("Pho")
    /\ currentRecipe = "lasagne"
    /\ lastDone = [region |-> NotFound("Pho"), late |-> FALSE]

ShowsError(region) == region.view \in {"errorRandom", "errorByName"}

\* C5 as stated: a random fetch that is rejected, or whose response is not ok
\* (whatever its body), or whose body holds no recipe, renders the generic
\* failure placeholder and leaves Current Recipe alone.
C5_RandomFailureIsError ==
    [][\A i \in 1..Len(fetches) :
        fetches[i].kind = "random" =>
            /\ FetchSettles(i, "reject") =>
                  recipeDisplay' = ErrorRandom /\ currentRecipe' = currentRecipe
            /\ \A body \in MealBodies :
                  (JsonSettles(i, body) /\ (~fetches[i].ok \/ body = "noMeals")) =>
                      recipeDisplay' = ErrorRandom /\ currentRecipe' = currentRecipe]_vars

\* C6 as stated: Current Recipe changes only in a step that completes a fetch
\* and leaves that recipe rendered; a fetch that ends with a recipe rendered
\* makes it Current Recipe; a fetch that ends in Error leaves Current Recipe
\* unchanged.
C6_CurrentIsLastDisplayed ==
    [][/\ currentRecipe' # currentRecipe =>
             /\ lastDone' # NoneDone
             /\ recipeDisplay' = RecipeHtml(MealDB[currentRecipe'])
       /\ \A i \in 1..Len(fetches), body \in RecipeIds :
             (JsonSettles(i, body) /\ recipeDisplay'.view = "recipe") =>
                 currentRecipe' = body
       /\ (lastDone' # NoneDone /\ ShowsError(recipeDisplay')) =>
             currentRecipe' = currentRecipe]_vars

\* C7: a remix request made while Current Recipe is unset starts no request
\* and renders the load-a-recipe-first prompt in the remix region.
C7_RemixNeedsRecipe ==
    [][(currentRecipe = NoRecipe /\ RemixClick) =>
            /\ remixes' = remixes
            /\ remixOutput' = RemixPrompt]_vars

\* the prompt is shown, nothing was sent
C7_Witness ==
    /\ remixOutput = RemixPrompt
    /\ remixes = <<>>
    /\ currentRecipe = NoRecipe

\* the failures of the remix service the claim lists
ServiceFailed(ok, body) ==
    \/ ~ok
    \/ ~body.valid
    \/ ~body.hasChoice
    \/ body.content.isNull
    \/ body.content.chars = <<>>

RemixFailureShown ==
    /\ remixOutput' = RemixFailure
    /\ UNCHANGED <<currentRecipe, recipeDisplay, slot, savedView>>

\* C8: when the remix service fails (rejection, status not ok, no choices, no
\* text content) remixRecipe throws, the remix region shows the generic
\* failure message, and Current Recipe, the recipe region and the persisted
\* list are unchanged.
C8_RemixFailureShown ==
    [][\A i \in 1..Len(remixes) :
        /\ RemixFetchSettles(i, "reject") => RemixFailureShown
        /\ \A body \in RemixBodies :
              (RemixBodySettles(i, body) /\ ServiceFailed(remixes[i].ok, body)) =>
                  /\ remixRecipe(remixes[i].ok, body).raised
                  /\ RemixFailureShown]_vars

\* a remix of the displayed Lasagne failed
C8_Witness ==
    /\ remixOutput = RemixFailure
    /\ logged = <<"Remix error:">>
    /\ currentRecipe = "lasagne"
    /\ recipeDisplay = RecipeHtml(MealDB["lasagne"])

\* a slot whose ingredient text is present and has a character that is no
\* white space
NonBlank(v) == ~v.isNull /\ \E k \in 1..Len(v.chars) : ~IsSpace(v.chars[k])

NonBlankSlots(recipe) == {i \in Slots : NonBlank(recipe.ing[i])}

\* the non-blank slots in ascending order, each with its measure
ExpectedIngredients(recipe) ==
    LET idx == SelectSeq([i \in Slots |-> i], LAMBDA i : NonBlank(recipe.ing[i]))
    IN  [k \in 1..Len(idx) |->
            IngredientText(recipe.meas[idx[k]], recipe.ing[idx[k]])]

\* the ingredient slots that appear in the prompt of a request
TransmittedSlots(request) ==
    {request.user.json[k].slot :
        k \in {j \in 1..Len(request.user.json) :
                  request.user.json[j].key = "strIngredient"}}

\* C9, rendered half: the ingredient list in the recipe region holds exactly
\* the non-blank slots of the recipe shown, in ascending order.
RenderedIngredientsNonBlank ==
    recipeDisplay.view = "recipe" =>
        recipeDisplay.ingredients = ExpectedIngredients(MealDB[currentRecipe])

\* C9 as stated: the ingredient list in the recipe region and the ingredient
\* list sent to the remix service both hold exactly the non-blank slots.
C9_OnlyNonBlankSlots ==
    /\ RenderedIngredientsNonBlank
    /\ \A k \in 1..Len(remixes), sel \in SelectValues :
          LET recipe == MealDB[remixes[k].recipe]
          IN  TransmittedSlots(RequestBody(recipe, ThemeOf(sel)))
                  = NonBlankSlots(recipe)

\* C10: a fetch started while another is pending leaves the pending one in
\* place, and when the last pending fetch has resolved the recipe region shows
\* what that fetch resolved to, whether it was started first or last; if that
\* is a recipe, it is Current Recipe.
C10_LastResolvedWins ==
    [][/\ Len(fetches') > Len(fetches) =>
            SubSeq(fetches', 1, Len(fetches)) = fetches
       /\ (fetches' = <<>> /\ lastDone' # NoneDone) =>
            /\ recipeDisplay' = lastDone'.region
            /\ lastDone'.region.view = "recipe" =>
                  /\ currentRecipe' # NoRecipe
                  /\ recipeDisplay' = RecipeHtml(MealDB[currentRecipe'])]_vars

\* the fetch that was started first resolved last, after the second one, and
\* its recipe is the one shown
C10_Witness ==
    /\ fetches = <<>>
    /\ lastDone.late
    /\ lastDone.region = RecipeHtml(MealDB["pho"])
    /\ recipeDisplay = RecipeHtml(MealDB["pho"])
    /\ currentRecipe = "pho"

\* the slot holds text that JSON.parse turns into an array of strings
IsStringList(s) ==
    /\ s.present
    /\ JsonParse(s.text).ok
    /\ JsonParse(s.text).value.isList

\* C11 as stated: whatever the slot holds, the top level of the script runs
\* to its end: the initial random fetch is started, and when the slot does
\* not hold a list of strings the saved region is hidden, as for the empty
\* list.
C11_LoadFailsSoft ==
    [][Startup =>
          /\ phase' = "running"
          /\ fetches' = <<NewFetch("random", "")>>
          /\ recipeDisplay' = LoadingRandom
          /\ ~IsStringList(slot) => savedView'.hidden]_vars

\* what a failed write leaves behind: the slot and the persisted list are as
\* before, the rendered list equals the persisted list, the console holds the
\* one message of the one failed attempt, and the page keeps running
WriteFailureAbsorbed ==
    /\ slot' = slot
    /\ PersistedAfter = Persisted
    /\ savedView'.items = PersistedAfter
    /\ savedView'.hidden = (PersistedAfter = <<>>)
    /\ logged' = <<"Error saving recipes to localStorage">>
    /\ phase' = "running"

\* C12: when the write to the slot fails during a save or a delete, the
\* persisted list is the same as before, the handler ends normally after one
\* attempt (one logged message, no retry), and the rendered saved list equals
\* the persisted list.
C12_WriteFailureKeepsList ==
    [][/\ (HasName /\ ~Includes(Persisted, SaveName) /\ SaveClick(FALSE)) =>
             WriteFailureAbsorbed
       /\ \A i \in 1..Len(savedView.items) :
             DeleteClick(i, FALSE) => WriteFailureAbsorbed]_vars

\* a write has just failed while "Lasagne" was saved and Pho was on screen
C12_Witness ==
    /\ logged = <<"Error saving recipes to localStorage">>
    /\ Persisted = <<"Lasagne">>
    /\ savedView = [hidden |-> FALSE, items |-> <<"Lasagne">>]
    /\ currentRecipe = "pho"

RoundTripKeepsList(s) ==
    \A w \in BOOLEAN : getSavedRecipes(RoundTrip(s, w)) = getSavedRecipes(s)

Count(list, name) == Cardinality({i \in 1..Len(list) : list[i] = name})

\* a save request without a usable Current Recipe: one more prompt in the
\* recipe region, nothing else
OnlyPromptAdded ==
    /\ recipeDisplay' = [recipeDisplay EXCEPT !.prompts = @ + 1]
    /\ PersistedAfter = Persisted
    /\ UNCHANGED <<slot, savedView, currentRecipe>>

\* C14 as stated: every save request with a named Current Recipe leaves its
\* name in the persisted list exactly once and the rendered list equal to it;
\* a save request without one only adds the prompt.
C14_SaveStoresCurrentName ==
    [][\A w \in BOOLEAN :
        SaveClick(w) =>
            IF HasName
            THEN /\ Count(PersistedAfter, SaveName) = 1
                 /\ savedView' = renderSavedRecipesList(slot')
            ELSE OnlyPromptAdded]_vars

\* C14 amended: a save request with a named Current Recipe leaves its name in
\* the persisted list exactly once when the name was there already or the
\* write succeeds; when the name is new and the write fails the persisted
\* list is as before, without the name.  Either way the rendered list equals
\* the persisted list.  A save request without a named Current Recipe only
\* adds the prompt.
C14_SaveStoresUnlessWriteFails ==
    [][\A w \in BOOLEAN :
        SaveClick(w) =>
            IF HasName
            THEN /\ Count(PersistedAfter, SaveName) =
                        IF w \/ Includes(Persisted, SaveName) THEN 1 ELSE 0
                 /\ (~w /\ ~Includes(Persisted, SaveName)) =>
                        PersistedAfter = Persisted
                 /\ savedView' = renderSavedRecipesList(slot')
                 /\ UNCHANGED <<currentRecipe, recipeDisplay>>
            ELSE OnlyPromptAdded]_vars

\* the prompt was added for a recipe without a name, after Lasagne had been
\* saved
C14_Witness ==
    /\ currentRecipe = "nameless"
    /\ recipeDisplay.view = "recipe"
    /\ recipeDisplay.prompts = 1
    /\ Persisted = <<"Lasagne">>
    /\ savedView.items = <<"Lasagne">>

\* when `region` has the save button it is the markup of a recipe, and that
\* recipe is `current`
ShownIsCurrent(region, current) ==
    HasSaveButton(region) =>
        /\ region.view \notin {"initial", "loading", "loadingByName", "notFound",
                               "errorRandom", "errorByName"}
        /\ current # NoRecipe
        /\ [region EXCEPT !.prompts = 0] = RecipeHtml(MealDB[current])

\* C15: in every reachable state the save button is present only while the
\* recipe region shows a recipe, that recipe is Current Recipe, and every name
\* a save click adds to the persisted list is the title on screen.
C15_SaveButtonShowsCurrent ==
    [][/\ ShownIsCurrent(recipeDisplay, currentRecipe)
       /\ ShownIsCurrent(recipeDisplay', currentRecipe')
       /\ \A w \in BOOLEAN :
             (SaveClick(w) /\ slot' # slot) =>
                 /\ recipeDisplay.title # ""
                 /\ PersistedAfter = Append(Persisted, recipeDisplay.title)]_vars

\* Lasagne was saved from the screen while an older fetch, overtaken by the
\* one that brought Lasagne, is still pending
C15_Witness ==
    /\ Len(fetches) = 1
    /\ fetches[1].late
    /\ recipeDisplay = RecipeHtml(MealDB["lasagne"])
    /\ currentRecipe = "lasagne"
    /\ Persisted = <<"Lasagne">>
    /\ lastDone = NoneDone

\* C16 as stated: whenever a remix request is sent, the recipe it carries is
\* the recipe the recipe region shows at that moment.
C16_RemixCarriesShownRecipe ==
    [][(RemixClick /\ Len(remixes') > Len(remixes)) =>
          /\ recipeDisplay.view = "recipe"
          /\ [recipeDisplay EXCEPT !.prompts = 0]
                = RecipeHtml(MealDB[remixes'[Len(remixes')].recipe])]_vars

\* C17: a load by name with the empty name sends no request and leaves the
\* recipe region (no loading placeholder is rendered), Current Recipe, the
\* persisted list and everything else on the page as they were.
C17_EmptyNameIsNoOp ==
    [][\A i \in 1..Len(savedView.items) :
        (savedView.items[i] = "" /\ NameClick(i)) =>
            /\ fetches' = fetches
            /\ recipeDisplay' = recipeDisplay
            /\ currentRecipe' = currentRecipe
            /\ slot' = slot
            /\ UNCHANGED <<savedView, remixOutput, remixes, phase>>]_vars

\* the entry with the empty name can be clicked while Lasagne is shown and
\* nothing is pending; the click leads back to this very state
C17_Witness ==
    /\ phase = "running"
    /\ savedView.items = <<"", "Pho">>
    /\ recipeDisplay = RecipeHtml(MealDB["lasagne"])
    /\ currentRecipe = "lasagne"
    /\ fetches = <<>>
    /\ logged = <<>>
    /\ lastDone = NoneDone

IsLoading(region) == region.view \in {"loading", "loadingByName"}

\* save and delete clicks leave the pending requests, the remix region and
\* the view of the recipe region alone
SaveDeleteLeaveRequests ==
    [][\A w \in BOOLEAN :
        (SaveClick(w) \/ \E i \in 1..Len(savedView.items) : DeleteClick(i, w)) =>
            /\ UNCHANGED <<fetches, remixes, remixOutput, currentRecipe>>
            /\ recipeDisplay'.view = recipeDisplay.view]_vars

\* with no fetch pending the recipe region is not loading, with no remix
\* pending the remix region is not loading
NoRequestNoLoading ==
    /\ fetches = <<>> => ~IsLoading(recipeDisplay)
    /\ remixes = <<>> => remixOutput # RemixLoading

\* the oldest pending fetch ends, having rendered a recipe, the not-found
\* message or a failure message
HeadFetchDone ==
    /\ fetches # <<>>
    /\ fetches' = Complete(fetches, 1)
    /\ lastDone' # NoneDone
    /\ recipeDisplay' = lastDone'.region
    /\ recipeDisplay'.view \in {"recipe", "notFound", "errorRandom", "errorByName"}

\* the oldest pending remix ends, having rendered a result or the failure
\* message
HeadRemixDone ==
    /\ remixes # <<>>
    /\ remixes' = Remove(remixes, 1)
    /\ remixOutput'.view \in {"result", "failure"}

\* C18: if every request is settled in the end, then either fetches stop
\* being pending for good or, again and again, the oldest pending fetch ends
\* with a recipe, not-found or failure render; so every fetch that rendered
\* the loading placeholder becomes the oldest and gets its final render.  The
\* same holds for remixes, which end with a result or failure render.  And
\* whenever no request is pending, neither region shows its loading
\* placeholder.
C18_LoadingIsNotFinal ==
    /\ []NoRequestNoLoading
    /\ (<>[](fetches = <<>>) \/ []<><<HeadFetchDone>>_vars)
    /\ (<>[](remixes = <<>>) \/ []<><<HeadRemixDone>>_vars)

\* overlapping fetches and a remix have all ended: nothing is pending, the
\* overtaken fetch rendered last, the remix region shows a result
C18_Witness ==
    /\ fetches = <<>>
    /\ remixes = <<>>
    /\ lastDone.late
    /\ recipeDisplay.view = "recipe"
    /\ remixOutput.view = "result"

\* a step of a remix request: the click, refused or not, and the two
\* continuations of remixRecipe
RemixStep ==
    \/ RemixClick
    \/ \E i \in 1..Len(remixes), status \in Statuses : RemixFetchSettles(i, status)
    \/ \E i \in 1..Len(remixes), body \in RemixBodies : RemixBodySettles(i, body)

\* the names the page can have got from the catalog or found in the slot
KnownNames == SavedNames \cup {MealDB[r].strMeal : r \in RecipeIds}

\* C19: every step of a remix request, whether the request is refused, fails
\* or succeeds, leaves Current Recipe, the recipe region, the slot with the
\* persisted list and the rendered saved list unchanged; the slot holds
\* nothing but recipe names.
C19_RemixChangesOnlyItsRegion ==
    [][/\ RemixStep =>
             /\ currentRecipe' = currentRecipe
             /\ recipeDisplay' = recipeDisplay
             /\ slot' = slot
             /\ savedView' = savedView
       /\ \A k \in 1..Len(slot'.text) :
             slot'.text[k].t = "string" => slot'.text[k].v \in KnownNames]_vars

\* a remix of the displayed and saved Lasagne has succeeded
C19_Witness ==
    /\ remixOutput = RemixResult(<<"Swap", "\n", "\n", "Stir", "\n", "Serve">>)
    /\ remixes = <<>>
    /\ currentRecipe = "lasagne"
    /\ recipeDisplay = RecipeHtml(MealDB["lasagne"])
    /\ Persisted = <<"Lasagne">>
    /\ savedView.items = <<"Lasagne">>

====
